---- MODULE Spec2Model ----
(***************************************************************************)
(* hxtk/ember: the OCI merged-view reader (pkg/oci/ociwalk.go), the CPIO   *)
(* newc writer (pkg/cpio/writer.go), the tar -> CPIO header translation    *)
(* (pkg/cpio/tar.go) and the oci2cpio driver (cmd, run).                   *)
(*                                                                         *)
(* Strings that are paths are modelled as the sequence of their            *)
(* "/"-separated segments (strings.Split(s, "/")), which is a bijection:   *)
(*   "./d/" = <<".", "d", "">>     "/d/x" = <<"", "d", "x">>   "" = <<"">> *)
(* so s + "/" + t is sequence concatenation.  A segment is a record        *)
(* [wh, rest]: wh copies of ".wh." followed by rest, rest never starting   *)
(* with ".wh."; rest is the sequence of its characters.                    *)
(***************************************************************************)
EXTENDS Integers, Sequences, FiniteSets, TLC

(***************************************************************************)
(* Bounds of the model.                                                    *)
(***************************************************************************)
MaxLayers == 2
MaxEntries == 3

Last(s) == s[Len(s)]
Front(s) == SubSeq(s, 1, Len(s) - 1)
BSeq(S, n) == UNION {[1..k -> S] : k \in 0..n}

(***************************************************************************)
(* Segments and the package path functions used by ociwalk.go.             *)
(***************************************************************************)
Seg(wh, rest) == [wh |-> wh, rest |-> rest]
Plain(rest) == Seg(0, rest)
EmptySeg == Plain(<<>>)
DotSeg == Plain(<<".">>)
DotDotSeg == Plain(<<".", ".">>)
SlashSeg == Plain(<<"/">>)
\* ".wh..wh..opq" = ".wh." ".wh." ".opq"
OpqBase == Seg(2, <<".", "o", "p", "q">>)

IsRooted(p) == Len(p) >= 2 /\ p[1] = EmptySeg

RECURSIVE CleanSegs(_, _, _, _)
CleanSegs(p, i, out, rooted) ==
  IF i > Len(p) THEN out
  ELSE IF p[i] = EmptySeg \/ p[i] = DotSeg THEN CleanSegs(p, i + 1, out, rooted)
  ELSE IF p[i] = DotDotSeg
       THEN IF out # <<>> /\ Last(out) # DotDotSeg
            THEN CleanSegs(p, i + 1, Front(out), rooted)
            ELSE IF rooted THEN CleanSegs(p, i + 1, out, rooted)
            ELSE CleanSegs(p, i + 1, Append(out, DotDotSeg), rooted)
       ELSE CleanSegs(p, i + 1, Append(out, p[i]), rooted)

\* path.Clean
PathClean(p) ==
  LET rooted == IsRooted(p)
      out == CleanSegs(p, 1, <<>>, rooted)
  IN IF rooted
     THEN IF out = <<>> THEN <<EmptySeg, EmptySeg>> ELSE <<EmptySeg>> \o out
     ELSE IF out = <<>> THEN <<DotSeg>> ELSE out

RECURSIVE StripSlashes(_)
StripSlashes(p) ==
  IF Len(p) >= 2 /\ Last(p) = EmptySeg THEN StripSlashes(Front(p)) ELSE p

\* path.Base: the last element, "." for the empty string, "/" for slashes only
PathBase(p) ==
  IF p = <<EmptySeg>> THEN DotSeg
  ELSE LET q == StripSlashes(p)
       IN IF Last(q) = EmptySeg THEN SlashSeg ELSE Last(q)

\* path.Dir: Clean of everything up to and including the last slash
PathDir(p) ==
  IF Len(p) = 1 THEN PathClean(<<EmptySeg>>)
  ELSE PathClean(Front(p) \o <<EmptySeg>>)

\* path.Join(dir, elem) for a slash-free elem
PathJoin(dir, elem) ==
  IF dir = <<EmptySeg>>
  THEN IF elem = EmptySeg THEN <<EmptySeg>> ELSE PathClean(<<elem>>)
  ELSE PathClean(dir \o <<elem>>)

\* strings.TrimPrefix(p, "/")
TrimSlash(p) == IF IsRooted(p) THEN Tail(p) ELSE p

cleanPath(p) == TrimSlash(PathClean(p))

\* strings.CutPrefix(base, ".wh.")
HasWhPrefix(base) == base.wh > 0
CutWhPrefix(base) == Seg(base.wh - 1, base.rest)

\* strings.HasPrefix(name, d + "/")
HasDirPrefix(name, d) ==
  /\ Len(name) > Len(d)
  /\ SubSeq(name, 1, Len(d)) = d

(***************************************************************************)
(* tar headers (archive/tar.Header), the fields the program reads.         *)
(***************************************************************************)
TypeReg == "reg"
TypeDir == "dir"
TypeSymlink == "symlink"
TypeLink == "link"
TypeChar == "char"
TypeBlock == "block"
TypeFifo == "fifo"
\* not a typeflag: the position in a layer at which tar decoding fails
TarCorrupt == "corrupt"

TarHdr(name, flag, size, link, mode, maj, min) ==
  [Name |-> name, Typeflag |-> flag, Size |-> size, Linkname |-> link,
   Mode |-> mode, Uid |-> 0, Gid |-> 0, ModTime |-> 0,
   Devmajor |-> maj, Devminor |-> min]
NilHdr == TarHdr(<<EmptySeg>>, "nil", 0, <<>>, 0, 0, 0)
CorruptEntry == TarHdr(<<EmptySeg>>, TarCorrupt, 0, <<>>, 0, 0, 0)

\* raw entry names of the layers of the merge universe
S_d == Plain(<<"d">>)
S_x == Plain(<<"x">>)
S_y == Plain(<<"y">>)
S_z == Plain(<<"z">>)
N_d == <<DotSeg, S_d, EmptySeg>>       \* "./d/"
N_dx == <<S_d, S_x>>                   \* "d/x"
N_dxAbs == <<EmptySeg, S_d, S_x>>      \* "/d/x"
N_dy == <<DotSeg, S_d, S_y>>           \* "./d/y"
N_dz == <<DotSeg, S_d, S_z>>           \* "./d/z"
N_whd == <<Seg(1, <<"d">>)>>           \* ".wh.d"
N_dOpq == <<DotSeg, S_d, OpqBase>>     \* "./d/.wh..wh..opq"
N_rootOpq == <<OpqBase>>               \* ".wh..wh..opq"
N_dUpX == <<S_d, DotDotSeg, S_x>>      \* "d/../x"
N_upX == <<DotDotSeg, S_x>>            \* "../x"
N_dUpWhx == <<S_d, DotDotSeg, Seg(1, <<"x">>)>>   \* "d/../.wh.x"

File(name) == TarHdr(name, TypeReg, 1, <<>>, 420, 0, 0)
Dir(name) == TarHdr(name, TypeDir, 0, <<>>, 493, 0, 0)

MergeHeaders ==
  {Dir(N_d), File(N_dx), File(N_dxAbs), File(N_whd), File(N_dOpq),
   File(N_rootOpq), CorruptEntry}

S3Top == {Dir(N_d), File(N_dOpq), File(N_dz)}
S3Base == {Dir(N_d), File(N_dx), File(N_dy)}
\* entries whose names hold a ".." segment
ParentHeaders == {File(N_dUpX), File(N_upX), File(N_dUpWhx)}

(***************************************************************************)
(* State.                                                                  *)
(***************************************************************************)
VARIABLES
  manifest,  \* manifest.Layers, base -> top, each layer the entries of its tar
  layers,    \* Reader.layers: the layer readers not yet started, by manifest index
  cur,       \* Reader.cur: manifest index of the current layer reader, 0 for nil
  lrs,       \* the layerReader objects: tar position and whether still open
  seen,      \* Reader.seen
  opaque,    \* Reader.opaque
  ret,       \* the Reader.Next call: running, or what it returned
  emitted,   \* history: the headers Next returned, with the entry each came from
  tw,        \* the cpio.Writer, its sink included
  wres,      \* result of the last Writer call
  pc,        \* position of run()
  inode,     \* run's inode counter
  runErr     \* the error run returns

readerVars == <<manifest, layers, cur, lrs, seen, opaque, ret, emitted>>
writerVars == <<tw, wres>>
driverVars == <<pc, inode, runErr>>
vars == <<manifest, layers, cur, lrs, seen, opaque, ret, emitted, tw, wres,
          pc, inode, runErr>>

Nil == "nil"
ErrEOF == "EOF"
ErrTar == "tar: invalid header"

Result(kind, hdr, err) == [kind |-> kind, hdr |-> hdr, err |-> err]

(***************************************************************************)
(* Images: MaxLayers layers (possibly empty) over a set of headers, with a *)
(* bounded total number of entries.                                        *)
(***************************************************************************)
IsCut(c, n) ==
  /\ c[1] = 0
  /\ c[MaxLayers + 1] = n
  /\ \A i \in 1..MaxLayers : c[i] <= c[i + 1]

Layered(flat, c) == [i \in 1..MaxLayers |-> SubSeq(flat, c[i] + 1, c[i + 1])]

\* the manifest order kept: base layer first
InOrder(n) == [i \in 1..n |-> i]
Reversed(n) == [i \in 1..n |-> n + 1 - i]

\* Open, after the manifest is loaded: a reader per layer, top layer first
OpenState(m) ==
  /\ manifest = m
  /\ layers = Reversed(Len(m))
  /\ cur = 0
  /\ lrs = [i \in 1..Len(m) |-> [pos |-> 0, open |-> TRUE]]
  /\ seen = {}
  /\ opaque = {}
  /\ ret = Result("idle", NilHdr, Nil)
  /\ emitted = <<>>

(***************************************************************************)
(* Reader.Next, one action per pass of its loop.                           *)
(***************************************************************************)
Running == ret.kind = "running"
AtEntry == cur # 0 /\ lrs[cur].pos < Len(manifest[cur])
Entry == manifest[cur][lrs[cur].pos + 1]
AtHeader == AtEntry /\ Entry.Typeflag # TarCorrupt
Advance == lrs' = [lrs EXCEPT ![cur].pos = @ + 1]

IsOpaqueMarker(name) == PathBase(name) = OpqBase
\* no name is taken for a whiteout
IsWhiteoutNever(name) == FALSE
IsWhiteout(name) == HasWhPrefix(PathBase(name))
WhiteoutTarget(name) == PathJoin(PathDir(name), CutWhPrefix(PathBase(name)))
HiddenByOpaque(op, name) == \E d \in op : name = d \/ HasDirPrefix(name, d)
\* the orders in which "for d := range r.opaque" may visit the map
Orders(op) ==
  {ord \in [1..Cardinality(op) -> op] : \A i, j \in DOMAIN ord : ord[i] = ord[j] => i = j}
\* a loop that looks at the first directory visited only
ScanFirst(ord, name) ==
  ord # <<>> /\ (name = ord[1] \/ HasDirPrefix(name, ord[1]))
\* the loop of lines 126-130 over the directories in the order visited: TRUE
\* for "goto skip"
RECURSIVE ScanOpaque(_, _)
ScanOpaque(ord, name) ==
  IF ord = <<>> THEN FALSE
  ELSE IF name = Head(ord) \/ HasDirPrefix(name, Head(ord)) THEN TRUE
  ELSE ScanOpaque(Tail(ord), name)
IsSeenNever(s, name) == FALSE
IsSeen(s, name) == name \in s
MarkSeenNot(s, name) == s
MarkSeen(s, name) == s \cup {name}

\* the caller invokes Next
CallNext ==
  /\ ret.kind # "running"
  /\ ret' = Result("running", NilHdr, Nil)
  /\ UNCHANGED <<manifest, layers, cur, lrs, seen, opaque, emitted>>

ReturnEOF ==
  /\ Running /\ cur = 0 /\ layers = <<>>
  /\ ret' = Result("eof", NilHdr, ErrEOF)
  /\ UNCHANGED <<manifest, layers, cur, lrs, seen, opaque, emitted>>

NextLayer ==
  /\ Running /\ cur = 0 /\ layers # <<>>
  /\ cur' = Head(layers)
  /\ layers' = Tail(layers)
  /\ UNCHANGED <<manifest, lrs, seen, opaque, ret, emitted>>

LayerEOF ==
  /\ Running /\ cur # 0 /\ ~AtEntry
  /\ lrs' = [lrs EXCEPT ![cur].open = FALSE]
  /\ cur' = 0
  /\ UNCHANGED <<manifest, layers, seen, opaque, ret, emitted>>

LayerError ==
  /\ Running /\ AtEntry /\ Entry.Typeflag = TarCorrupt
  /\ ret' = Result("err", NilHdr, ErrTar)
  /\ UNCHANGED <<manifest, layers, cur, lrs, seen, opaque, emitted>>

OpaqueMarker ==
  /\ Running /\ AtHeader
  /\ LET name == cleanPath(Entry.Name) IN
       /\ IsOpaqueMarker(name)
       /\ opaque' = opaque \cup {PathDir(name)}
  /\ Advance
  /\ UNCHANGED <<manifest, layers, cur, seen, ret, emitted>>

Whiteout ==
  /\ Running /\ AtHeader
  /\ LET name == cleanPath(Entry.Name) IN
       /\ ~IsOpaqueMarker(name)
       /\ IsWhiteout(name)
       /\ seen' = seen \cup {WhiteoutTarget(name)}
  /\ Advance
  /\ UNCHANGED <<manifest, layers, cur, opaque, ret, emitted>>

SkipOpaque ==
  /\ Running /\ AtHeader
  /\ LET name == cleanPath(Entry.Name) IN
       /\ ~IsOpaqueMarker(name)
       /\ ~IsWhiteout(name)
       /\ \E ord \in Orders(opaque) : ScanOpaque(ord, name)
  /\ Advance
  /\ UNCHANGED <<manifest, layers, cur, seen, opaque, ret, emitted>>

SkipSeen ==
  /\ Running /\ AtHeader
  /\ LET name == cleanPath(Entry.Name) IN
       /\ ~IsOpaqueMarker(name)
       /\ ~IsWhiteout(name)
       /\ \E ord \in Orders(opaque) : ~ScanOpaque(ord, name)
       /\ IsSeen(seen, name)
  /\ Advance
  /\ UNCHANGED <<manifest, layers, cur, seen, opaque, ret, emitted>>

Emit ==
  /\ Running /\ AtHeader
  /\ LET name == cleanPath(Entry.Name)
         hdr == [Entry EXCEPT !.Name = name]
     IN
       /\ ~IsOpaqueMarker(name)
       /\ ~IsWhiteout(name)
       /\ \E ord \in Orders(opaque) : ~ScanOpaque(ord, name)
       /\ ~IsSeen(seen, name)
       /\ seen' = MarkSeen(seen, name)
       /\ ret' = Result("hdr", hdr, Nil)
       /\ emitted' = Append(emitted,
                            [hdr |-> hdr, layer |-> cur, idx |-> lrs[cur].pos + 1])
  /\ Advance
  /\ UNCHANGED <<manifest, layers, cur, opaque>>

(***************************************************************************)
(* Bytes.  A byte is a one-character string; NUL is the zero byte and      *)
(* DataByte a byte of a tar body.                                          *)
(***************************************************************************)
NUL == "NUL"
DataByte == "#"
WhBytes == <<".", "w", "h", ".">>

RECURSIVE Repeat(_, _)
Repeat(b, n) == IF n <= 0 THEN <<>> ELSE b \o Repeat(b, n - 1)

SegBytes(seg) == Repeat(WhBytes, seg.wh) \o seg.rest

\* []byte(name)
RECURSIVE NameBytes(_)
NameBytes(p) ==
  IF Len(p) = 1 THEN SegBytes(p[1])
  ELSE SegBytes(p[1]) \o <<"/">> \o NameBytes(Tail(p))

HexDigits ==
  <<"0", "1", "2", "3", "4", "5", "6", "7", "8", "9", "A", "B", "C", "D", "E", "F">>
Pow16 == <<268435456, 16777216, 1048576, 65536, 4096, 256, 16, 1>>

\* %08X of a value clamped to 0..2^31-1 instead of wrapped
Hex8Clamp(v) ==
  LET a == IF v < 0 THEN 0 ELSE v
  IN [i \in 1..8 |-> HexDigits[((a \div Pow16[i]) % 16) + 1]]

\* fmt.Sprintf("%08X", uint32(v)): the 8 hex digits of the low 32 bits of v
Hex8(v) == [i \in 1..8 |-> HexDigits[((v \div Pow16[i]) % 16) + 1]]

\* Go's remainder: the sign of the dividend
GoRem(a, b) == IF a >= 0 THEN a % b ELSE 0 - ((0 - a) % b)

(***************************************************************************)
(* cpio.Header and cpio.Writer (pkg/cpio/writer.go).                       *)
(***************************************************************************)
Magic == <<"0", "7", "0", "7", "0", "1">>
FixedLen == 110
\* the low 32 bits, read as a signed value, of time.Time{}.Unix() = -62135596800
ZeroTimeUnix == -2006054656

\* A numeric field of a Header is a 64-bit Go integer.  Its low 32 bits are the
\* field itself, as a signed 32-bit number (-1 is FFFFFFFF); its high 32 bits are
\* in Hi, 0 for a value in 0..2^31-1 and -1 for a negative value that fits.
NumFields ==
  {"Inode", "Mode", "Uid", "Gid", "Links", "ModTime", "Size", "DevMajor",
   "DevMinor", "RdevMajor", "RdevMinor"}
NoHi == [f \in NumFields |-> 0]

CpioHdr(name, mode, size, rmaj, rmin, links, ino) ==
  [Name |-> name, Mode |-> mode, Uid |-> 0, Gid |-> 0, Size |-> size,
   ModTime |-> 0, DevMajor |-> 0, DevMinor |-> 0, RdevMajor |-> rmaj,
   RdevMinor |-> rmin, Links |-> links, Inode |-> ino, Hi |-> NoHi]

ErrClosed == "cpio: writer is closed"
ErrWriteClosed == "cpio: write to closed writer"
ErrNoHeader == "cpio: write before header"
ErrIO == "io: write failed"

\* the sink: the bytes it took, how many Write calls it accepts before it
\* fails (left < 0: it does not fail), and how many it accepts after a failure
\* (more = 0: it stays failed; more < 0: it has recovered for good)
Sink(left) == [out |-> <<>>, left |-> left, more |-> 0]
\* a sink that fails one Write call and takes every later one
FlakySink(left) == [out |-> <<>>, left |-> left, more |-> -1]
SinkWrite(w, b) ==
  IF w.left = 0 THEN [w |-> [w EXCEPT !.left = w.more], err |-> ErrIO]
  ELSE [w |-> [out |-> w.out \o b,
               left |-> IF w.left > 0 THEN w.left - 1 ELSE w.left,
               more |-> w.more],
        err |-> Nil]

\* consecutive sink writes, stopping at the first that fails
RECURSIVE WriteAll(_, _)
WriteAll(w, chunks) ==
  IF chunks = <<>> THEN [w |-> w, err |-> Nil]
  ELSE LET r == SinkWrite(w, Head(chunks))
       IN IF r.err # Nil THEN r ELSE WriteAll(r.w, Tail(chunks))

NewWriter(w) ==
  [w |-> w, err |-> Nil, nb |-> 0, pad |-> 0, closed |-> FALSE,
   headerWritten |-> FALSE,
   frames |-> <<>>]  \* history: per header written, its offset, header, body bytes

WRes(t, err, n) == [tw |-> t, err |-> err, n |-> n]

Zeros(n) == Repeat(<<NUL>>, n)

flushPadding(t) ==
  LET r == IF t.pad > 0 THEN SinkWrite(t.w, Zeros(t.pad))
           ELSE [w |-> t.w, err |-> Nil]
  IN IF r.err # Nil THEN WRes([t EXCEPT !.w = r.w, !.err = r.err], r.err, 0)
     ELSE WRes([t EXCEPT !.w = r.w, !.headerWritten = FALSE], Nil, 0)

HeaderStr(hdr, nameSize) ==
  Magic \o Hex8(hdr.Inode) \o Hex8(hdr.Mode) \o Hex8(hdr.Uid) \o Hex8(hdr.Gid)
        \o Hex8(hdr.Links) \o Hex8(hdr.ModTime) \o Hex8(hdr.Size)
        \o Hex8(hdr.DevMajor) \o Hex8(hdr.DevMinor) \o Hex8(hdr.RdevMajor)
        \o Hex8(hdr.RdevMinor) \o Hex8(nameSize) \o Hex8(0)

HeaderPadLen(nameSize) == (4 - ((FixedLen + nameSize) % 4)) % 4
\* hdr.Size % 4 in Go: the sign of the 64-bit value, the low two bits of its size
Rem4(size, hi) == IF hi >= 0 THEN size % 4 ELSE 0 - ((4 - (size % 4)) % 4)
BodyPad(size, hi) == GoRem(4 - Rem4(size, hi), 4)

\* WriteHeader from the fixed header on (lines 68-127)
EmitHeader(t, hdr) ==
  LET nameBytes == NameBytes(hdr.Name)
      nameSize == Len(nameBytes) + 1
      padLen == HeaderPadLen(nameSize)
      off == Len(t.w.out)
      r == WriteAll(t.w, <<HeaderStr(hdr, nameSize), nameBytes, <<NUL>>>>
                         \o (IF padLen > 0 THEN <<Zeros(padLen)>> ELSE <<>>))
      fr == IF Len(r.w.out) > off
            THEN Append(t.frames, [off |-> off, hdr |-> hdr, nb |-> 0])
            ELSE t.frames
  IN IF r.err # Nil
     THEN WRes([t EXCEPT !.w = r.w, !.err = r.err, !.frames = fr], r.err, 0)
     ELSE WRes([t EXCEPT !.w = r.w, !.nb = 0, !.pad = BodyPad(hdr.Size, hdr.Hi.Size),
                         !.headerWritten = TRUE, !.frames = fr], Nil, 0)

WriteHeader(t, hdr) ==
  IF t.closed THEN WRes(t, ErrClosed, 0)
  ELSE IF t.err # Nil THEN WRes(t, t.err, 0)
  ELSE LET f == IF t.headerWritten THEN flushPadding(t) ELSE WRes(t, Nil, 0)
       IN IF f.err # Nil THEN f ELSE EmitHeader(f.tw, hdr)

Write(t, b) ==
  IF t.closed THEN WRes(t, ErrWriteClosed, 0)
  ELSE IF ~t.headerWritten THEN WRes(t, ErrNoHeader, 0)
  ELSE LET r == SinkWrite(t.w, b)
       IN IF r.err # Nil THEN WRes([t EXCEPT !.w = r.w, !.err = r.err], r.err, 0)
          ELSE WRes([t EXCEPT !.w = r.w, !.nb = @ + Len(b),
                              !.frames[Len(t.frames)].nb = @ + Len(b)],
                    Nil, Len(b))

TrailerName == <<Plain(<<"T", "R", "A", "I", "L", "E", "R", "!", "!", "!">>)>>
TrailerNoLink ==
  [CpioHdr(TrailerName, 0, 0, 0, 0, 0, 0)
     EXCEPT !.ModTime = ZeroTimeUnix, !.Hi.ModTime = -15]
\* time.Time{}.Unix() = -62135596800 = -15 * 2^32 + 16r886E0900
Trailer ==
  [CpioHdr(TrailerName, 0, 0, 0, 0, 1, 0)
     EXCEPT !.ModTime = ZeroTimeUnix, !.Hi.ModTime = -15]

\* Close on a writer that is not closed (lines 173-199)
CloseOpen(t) ==
  LET f == IF t.headerWritten THEN flushPadding(t) ELSE WRes(t, Nil, 0)
  IN IF f.err # Nil THEN f
     ELSE LET h == WriteHeader(f.tw, Trailer)
          IN IF h.err # Nil THEN h
             ELSE LET g == flushPadding(h.tw)
                  IN IF g.err # Nil THEN g
                     ELSE WRes([g.tw EXCEPT !.closed = TRUE], Nil, 0)

\* a Close that does not look at tw.closed
CloseAgain(t) == CloseOpen(t)
Close(t) == IF t.closed THEN WRes(t, Nil, 0) ELSE CloseOpen(t)

(***************************************************************************)
(* HeaderFromTar (pkg/cpio/tar.go).                                        *)
(***************************************************************************)
S_IFLNK == 40960
S_IFREG == 32768
S_IFBLK == 24576
S_IFDIR == 16384
S_IFCHR == 8192
S_IFIFO == 4096
PermMask == 4096  \* th.Mode & 07777 is th.Mode mod 010000

TypeBits(flag) ==
  CASE flag = TypeDir -> S_IFDIR
    [] flag = TypeSymlink -> S_IFLNK
    [] flag = TypeChar -> S_IFCHR
    [] flag = TypeBlock -> S_IFBLK
    [] flag = TypeFifo -> S_IFIFO
    [] flag = TypeReg -> S_IFREG
    [] flag = TypeLink -> S_IFREG
    [] OTHER -> 0

\* no translation of the size: the tar size for every typeflag
TarSize(th) == th.Size

CpioSize(th) ==
  CASE th.Typeflag = TypeSymlink -> Len(th.Linkname)
    [] th.Typeflag \in {TypeDir, TypeChar, TypeBlock, TypeFifo, TypeLink} -> 0
    [] OTHER -> th.Size

HeaderFromTar(th, ino) ==
  [Name |-> th.Name, Mode |-> (th.Mode % PermMask) + TypeBits(th.Typeflag),
   Uid |-> th.Uid, Gid |-> th.Gid, Size |-> CpioSize(th), ModTime |-> th.ModTime,
   DevMajor |-> th.Devmajor, DevMinor |-> th.Devminor,
   RdevMajor |-> 0, RdevMinor |-> 0, Links |-> 0, Inode |-> ino, Hi |-> NoHi]

(***************************************************************************)
(* Spec: the merged reader alone, a caller that keeps calling Next.        *)
(***************************************************************************)
Images(H, n) ==
  {Layered(flat, c) : <<flat, c>> \in
     {fc \in BSeq(H, n) \X [1..(MaxLayers + 1) -> 0..n] : IsCut(fc[2], Len(fc[1]))}}

IdleWriter ==
  /\ tw = NewWriter(Sink(-1))
  /\ wres = [op |-> "new", arg |-> <<>>, err |-> Nil, n |-> 0, calls |-> 0]
IdleDriver == pc = "idle" /\ inode = 1 /\ runErr = Nil

\* scenario S3 of the specification and its neighbours: two layers, each an
\* arrangement of some of the entries S3 gives it
Arrangements(S) ==
  {q \in BSeq(S, Cardinality(S)) : \A i, j \in DOMAIN q : q[i] = q[j] => i = j}
S3Images ==
  {<<base, top>> : <<base, top>> \in Arrangements(S3Base) \X Arrangements(S3Top)}

\* two layers, each an arrangement of some of the entries with ".." names
ParentImages ==
  {<<base, top>> : <<base, top>> \in Arrangements(ParentHeaders) \X Arrangements(ParentHeaders)}

Init ==
  /\ \E m \in Images(MergeHeaders, MaxEntries) \cup S3Images \cup ParentImages :
       OpenState(m)
  /\ IdleWriter
  /\ IdleDriver

Next ==
  \/ CallNext /\ UNCHANGED <<writerVars, driverVars>>
  \/ ReturnEOF /\ UNCHANGED <<writerVars, driverVars>>
  \/ NextLayer /\ UNCHANGED <<writerVars, driverVars>>
  \/ LayerEOF /\ UNCHANGED <<writerVars, driverVars>>
  \/ LayerError /\ UNCHANGED <<writerVars, driverVars>>
  \/ OpaqueMarker /\ UNCHANGED <<writerVars, driverVars>>
  \/ Whiteout /\ UNCHANGED <<writerVars, driverVars>>
  \/ SkipOpaque /\ UNCHANGED <<writerVars, driverVars>>
  \/ SkipSeen /\ UNCHANGED <<writerVars, driverVars>>
  \/ Emit /\ UNCHANGED <<writerVars, driverVars>>

Spec == Init /\ [][Next]_vars

(***************************************************************************)
(* SpecWriter: a client that calls WriteHeader, Write and Close in any     *)
(* order on one Writer.                                                    *)
(***************************************************************************)
MaxCalls == 4
MaxWrite == 2
MaxSinkWrites == 3

SinkBudgets == {-1} \cup 0..MaxSinkWrites

S_etc == Plain(<<"e", "t", "c">>)
S_hello == Plain(<<"h", "e", "l", "l", "o">>)
\* a header with the empty name and values outside 0..2^31-1:
\*   Inode 2^32 + 5, Mode -1, Uid 2^31, Gid 2^32 - 1, Size 2^32 + 1,
\*   ModTime -2, DevMajor -2^31, RdevMinor 2^33 + 16rABCDEF
WideHeader ==
  [CpioHdr(<<EmptySeg>>, -1, 1, 0, 11259375, 1, 5)
     EXCEPT !.Uid = -2147483647 - 1, !.Gid = -1, !.ModTime = -2,
            !.DevMajor = -2147483647 - 1,
            !.Hi = [NoHi EXCEPT !.Inode = 1, !.Mode = -1, !.Size = 1, !.ModTime = -1,
                                !.DevMajor = -1, !.RdevMinor = 2]]
WriterHeaders ==
  {CpioHdr(<<Plain(<<"a">>)>>, S_IFREG + 420, 2, 0, 0, 1, 1),
   CpioHdr(<<DotSeg, S_hello>>, S_IFREG + 420, 3, 0, 0, 1, 2),
   CpioHdr(<<DotSeg, S_etc, EmptySeg>>, S_IFDIR + 493, 0, 0, 0, 2, 3),
   WideHeader}

Called(op, arg, r) ==
  /\ wres.calls < MaxCalls
  /\ tw' = r.tw
  /\ wres' = [op |-> op, arg |-> arg, err |-> r.err, n |-> r.n,
              calls |-> wres.calls + 1]

W_WriteHeader == \E h \in WriterHeaders : Called("WriteHeader", h, WriteHeader(tw, h))
W_Write == \E b \in BSeq({DataByte}, MaxWrite) : Called("Write", b, Write(tw, b))
W_Close == Called("Close", <<>>, Close(tw))

InitWriter ==
  /\ OpenState(<<>>)
  /\ \/ \E left \in SinkBudgets : tw = NewWriter(Sink(left))
     \/ \E left \in 0..MaxSinkWrites : tw = NewWriter(FlakySink(left))
  /\ wres = [op |-> "new", arg |-> <<>>, err |-> Nil, n |-> 0, calls |-> 0]
  /\ IdleDriver

NextWriter ==
  \/ W_WriteHeader /\ UNCHANGED <<readerVars, driverVars>>
  \/ W_Write /\ UNCHANGED <<readerVars, driverVars>>
  \/ W_Close /\ UNCHANGED <<readerVars, driverVars>>

SpecWriter == InitWriter /\ [][NextWriter]_vars

(***************************************************************************)
(* SpecDriver: run() of cmd/oci2cpio, the reader and the writer together.  *)
(***************************************************************************)
MaxDriverEntries == 2

S_link == Plain(<<"l", "i", "n", "k">>)
L_abc == <<"a", "b", "c">>
DriverHeaders ==
  {TarHdr(<<S_etc, EmptySeg>>, TypeDir, 0, <<>>, 493, 0, 0),
   TarHdr(<<S_etc, EmptySeg>>, TypeDir, 2, <<>>, 16877, 0, 0),   \* mode 040755
   TarHdr(<<DotSeg, S_hello>>, TypeReg, 3, <<>>, 33188, 0, 0),  \* mode 0100644
   TarHdr(<<S_link>>, TypeSymlink, 0, L_abc, 511, 0, 0),
   TarHdr(<<S_link>>, TypeSymlink, 2, L_abc, 511, 0, 0),
   TarHdr(<<Plain(<<"h">>)>>, TypeLink, 0, <<"h", "e", "l", "l", "o">>, 420, 0, 0),
   TarHdr(<<Plain(<<"c">>)>>, TypeChar, 0, <<>>, 384, 1, 3),
   TarHdr(<<Plain(<<"b">>)>>, TypeBlock, 0, <<>>, 384, 8, 1),
   TarHdr(<<Plain(<<"f">>)>>, TypeFifo, 0, <<>>, 420, 0, 0),
   TarHdr(<<Seg(1, <<"h">>)>>, TypeReg, 0, <<>>, 0, 0, 0),
   TarHdr(<<S_etc, OpqBase>>, TypeReg, 0, <<>>, 0, 0, 0),
   CorruptEntry}

\* archive/tar: Read on a link, symlink, device, directory or fifo entry
\* returns (0, io.EOF) whatever Header.Size says; a regular entry has Size bytes
HeaderOnly == {TypeLink, TypeSymlink, TypeChar, TypeBlock, TypeDir, TypeFifo}
TarAvail(hdr) == IF hdr.Typeflag \in HeaderOnly THEN 0 ELSE hdr.Size

\* the name run computes (lines 66-72) and never gives to the header
DriverName(hdr) ==
  LET name == IF hdr.Typeflag = TypeDir THEN hdr.Name \o <<EmptySeg>> ELSE hdr.Name
  IN IF ~(Len(hdr.Name) >= 2 /\ hdr.Name[1] = DotSeg) THEN <<DotSeg>> \o name ELSE name

\* the header run writes (lines 52-55, 75-76)
DriverHeader(hdr, ino) ==
  [HeaderFromTar(hdr, ino) EXCEPT !.Links = IF hdr.Typeflag = TypeDir THEN 2 ELSE 1]

\* io.CopyN(cpioWriter, ociReader, n): what the entry's reader has goes to
\* Write in one call; fewer than n bytes is io.EOF
CopyN(t, avail, n) ==
  IF avail = 0 THEN WRes(t, ErrEOF, 0)
  ELSE LET k == IF avail < n THEN avail ELSE n
           r == Write(t, Repeat(<<DataByte>>, k))
       IN IF r.err # Nil THEN r
          ELSE IF k < n THEN WRes(r.tw, ErrEOF, k) ELSE r

\* the payload step of run (lines 84-94)
CopyBody(t, hdr) ==
  IF hdr.Size > 0 THEN CopyN(t, TarAvail(hdr), hdr.Size)
  ELSE IF hdr.Typeflag = TypeSymlink THEN Write(t, hdr.Linkname)
  ELSE WRes(t, Nil, 0)

RunCallNext ==
  /\ pc = "loop" /\ ret.kind = "idle"
  /\ CallNext
  /\ UNCHANGED <<writerVars, driverVars>>

RunEntry ==
  /\ pc = "loop" /\ ret.kind = "hdr"
  /\ LET h == WriteHeader(tw, DriverHeader(ret.hdr, inode))
         b == IF h.err # Nil THEN h ELSE CopyBody(h.tw, ret.hdr)
     IN /\ tw' = b.tw
        /\ runErr' = b.err
        /\ pc' = IF b.err # Nil THEN "defer" ELSE "loop"
        /\ ret' = IF b.err # Nil THEN ret ELSE Result("idle", NilHdr, Nil)
  /\ inode' = inode + 1
  /\ UNCHANGED <<manifest, layers, cur, lrs, seen, opaque, emitted, wres>>

RunBreak ==
  /\ pc = "loop" /\ ret.kind = "eof"
  /\ pc' = "defer"
  /\ UNCHANGED <<readerVars, writerVars, inode, runErr>>

RunReadError ==
  /\ pc = "loop" /\ ret.kind = "err"
  /\ runErr' = ret.err
  /\ pc' = "defer"
  /\ UNCHANGED <<readerVars, writerVars, inode>>

\* the deferred cpioWriter.Close(), its error dropped
RunDeferClose ==
  /\ pc = "defer"
  /\ tw' = Close(tw).tw
  /\ pc' = "exit"
  /\ UNCHANGED <<readerVars, wres, inode, runErr>>

\* one layer over an empty base: an arrangement of two opaque markers, of the
\* root and of etc, and a file under etc
S_passwd == Plain(<<"p", "a", "s", "s", "w", "d">>)
OpaqueHeaders ==
  {TarHdr(<<OpqBase>>, TypeReg, 0, <<>>, 0, 0, 0),
   TarHdr(<<S_etc, OpqBase>>, TypeReg, 0, <<>>, 0, 0, 0),
   TarHdr(<<S_etc, S_passwd>>, TypeReg, 1, <<>>, 420, 0, 0)}
OpaqueImages == {<<(<<>>), top>> : top \in Arrangements(OpaqueHeaders)}

InitDriver ==
  /\ \E m \in Images(DriverHeaders, MaxDriverEntries) \cup OpaqueImages : OpenState(m)
  /\ \E left \in SinkBudgets : tw = NewWriter(Sink(left))
  /\ wres = [op |-> "new", arg |-> <<>>, err |-> Nil, n |-> 0, calls |-> 0]
  /\ pc = "loop" /\ inode = 1 /\ runErr = Nil

NextDriver ==
  \/ RunCallNext
  \/ ReturnEOF /\ UNCHANGED <<writerVars, driverVars>>
  \/ NextLayer /\ UNCHANGED <<writerVars, driverVars>>
  \/ LayerEOF /\ UNCHANGED <<writerVars, driverVars>>
  \/ LayerError /\ UNCHANGED <<writerVars, driverVars>>
  \/ OpaqueMarker /\ UNCHANGED <<writerVars, driverVars>>
  \/ Whiteout /\ UNCHANGED <<writerVars, driverVars>>
  \/ SkipOpaque /\ UNCHANGED <<writerVars, driverVars>>
  \/ SkipSeen /\ UNCHANGED <<writerVars, driverVars>>
  \/ Emit /\ UNCHANGED <<writerVars, driverVars>>
  \/ RunEntry
  \/ RunBreak
  \/ RunReadError
  \/ RunDeferClose

SpecDriver == InitDriver /\ [][NextDriver]_vars

(***************************************************************************)
(* Vocabulary of the merge claims.  An entry is a position <<l, i>>: layer *)
(* l of the manifest (1 = base), i-th entry of its tar.                    *)
(***************************************************************************)
Positions ==
  UNION {{<<l, i>> : i \in 1..Len(manifest[l])} : l \in 1..Len(manifest)}
EntryAt(q) == manifest[q[1]][q[2]]
Entries == {q \in Positions : EntryAt(q).Typeflag # TarCorrupt}
CleanAt(q) == cleanPath(EntryAt(q).Name)
\* q is read before r: a higher layer, or the same layer and earlier in the tar
ReadBefore(q, r) == q[1] > r[1] \/ (q[1] = r[1] /\ q[2] < r[2])

OpaqueAt(q) == PathBase(CleanAt(q)) = OpqBase
WhiteoutAt(q) == ~OpaqueAt(q) /\ PathBase(CleanAt(q)).wh > 0
FileAt(q) == ~OpaqueAt(q) /\ ~WhiteoutAt(q)
\* the directory a marker sits in, and the sibling a whiteout names
MarkerDir(q) == PathDir(CleanAt(q))
TargetAt(q) == PathJoin(MarkerDir(q), CutWhPrefix(PathBase(CleanAt(q))))
\* path p is d or a descendant of d; everything is under the root "."
AtOrUnder(p, d) == d = <<DotSeg>> \/ p = d \/ HasDirPrefix(p, d)

Origin(e) == <<e.layer, e.idx>>
Emitted == {emitted[k] : k \in DOMAIN emitted}
EmittedFrom(q) == \E e \in Emitted : Origin(e) = q
AtEOF == ret.kind = "eof"
FirstOccurrence(q) ==
  \A r \in Entries : (FileAt(r) /\ CleanAt(r) = CleanAt(q)) => ~ReadBefore(r, q)

\* C1: a whiteout .wh.X in directory D keeps every entry of a lower layer at
\* D/X or below D/X from being returned by Next.
C1_WhiteoutHidesSubtree ==
  \A q \in Entries : \A e \in Emitted :
    (WhiteoutAt(q) /\ e.layer < q[1]) => ~AtOrUnder(e.hdr.Name, TargetAt(q))

\* C2: an opaque marker D/.wh..wh..opq, D the image root included, keeps every
\* entry of a lower layer at or under D from being returned by Next.
C2_OpaqueHidesLower ==
  \A q \in Entries : \A e \in Emitted :
    (OpaqueAt(q) /\ e.layer < q[1]) => ~AtOrUnder(e.hdr.Name, MarkerDir(q))

\* an entry no marker of a strictly higher layer touches
ClearAbove(r) ==
  \A q \in Entries :
    q[1] > r[1] =>
      /\ WhiteoutAt(q) => CleanAt(r) # TargetAt(q)
      /\ OpaqueAt(q) => ~AtOrUnder(CleanAt(r), MarkerDir(q))

S3Image ==
  <<(<<Dir(N_d), File(N_dx), File(N_dy)>>), (<<Dir(N_d), File(N_dOpq), File(N_dz)>>)>>

\* C3: an opaque marker hides lower layers only: the entries of the marker's
\* own layer at or under D are returned, before or after the marker; S3 yields
\* exactly d/ and d/z of the top layer.
C3_OpaqueKeepsOwnLayer ==
  AtEOF =>
    /\ \A q \in Entries : \A r \in Entries :
         ( /\ OpaqueAt(q) /\ FileAt(r) /\ r[1] = q[1]
           /\ AtOrUnder(CleanAt(r), MarkerDir(q))
           /\ FirstOccurrence(r) /\ ClearAbove(r)
           /\ \A w \in Entries : (WhiteoutAt(w) /\ w[1] = r[1]) => TargetAt(w) # CleanAt(r)
         ) => EmittedFrom(r)
    /\ manifest = S3Image =>
         [k \in DOMAIN emitted |-> Origin(emitted[k])] = <<(<<2, 1>>), (<<2, 3>>)>>

\* a path no whiteout names and no opaque marker covers, anywhere in the image
Unaffected(p) ==
  \A q \in Entries :
    /\ WhiteoutAt(q) => TargetAt(q) # p
    /\ OpaqueAt(q) => ~AtOrUnder(p, MarkerDir(q))

C4_State ==
  LET ents == Entries
      clean == [q \in ents |-> CleanAt(q)]
      files == {q \in ents : FileAt(q)}
      first(q) == \A r \in files : clean[r] = clean[q] => ~ReadBefore(r, q)
  IN /\ \A e \in Emitted :
          /\ first(Origin(e))
          /\ e.hdr = [EntryAt(Origin(e)) EXCEPT !.Name = clean[Origin(e)]]
     /\ AtEOF =>
          \A q \in files :
            (first(q) /\ Unaffected(clean[q])) => EmittedFrom(q)

\* the step consumes an entry whose path an earlier-read entry already had
C4_LaterOccurrenceStep ==
  /\ Running /\ AtHeader /\ lrs' # lrs
  /\ LET q == <<cur, lrs[cur].pos + 1>> IN
       /\ FileAt(q) /\ ~FirstOccurrence(q) /\ Unaffected(CleanAt(q))

\* C4: a path no marker affects is returned from the topmost layer that has it,
\* at its first occurrence there; every later occurrence is skipped and leaves
\* seen and opaque as they are.
C4_TopmostFirstWins ==
  /\ []C4_State
  /\ [][C4_LaterOccurrenceStep =>
          (seen' = seen /\ opaque' = opaque /\ emitted' = emitted /\ ret' = ret)]_vars

\* C4's case: at EOF, an unaffected path that a layer holds twice and a lower
\* layer holds again, returned once
C4_Witness ==
  /\ AtEOF
  /\ \E e \in Emitted : \E r1 \in Entries : \E r2 \in Entries :
       /\ Unaffected(e.hdr.Name)
       /\ FileAt(r1) /\ FileAt(r2)
       /\ CleanAt(r1) = e.hdr.Name /\ CleanAt(r2) = e.hdr.Name
       /\ r1[1] = e.layer /\ r1[2] > e.idx
       /\ r2[1] < e.layer

\* C5: no two headers returned by Next carry the same path.
C5_UniquePaths ==
  \A i \in DOMAIN emitted : \A j \in DOMAIN emitted :
    i # j => emitted[i].hdr.Name # emitted[j].hdr.Name

\* C5's case: at EOF two entries were returned and a third, of a path already
\* returned, was not
C5_Witness ==
  /\ AtEOF
  /\ Len(emitted) >= 2
  /\ \E q \in Entries : FileAt(q) /\ ~EmittedFrom(q)
       /\ \E e \in Emitted : e.hdr.Name = CleanAt(q)

\* C6: a whiteout .wh.X hides X in lower layers only: X in the whiteout's own
\* layer, before or after it, or in a higher layer is returned.
C6_WhiteoutOnlyBelow ==
  AtEOF =>
    \A q \in Entries : \A r \in Entries :
      ( /\ WhiteoutAt(q) /\ FileAt(r) /\ r[1] >= q[1]
        /\ CleanAt(r) = TargetAt(q)
        /\ FirstOccurrence(r) /\ ClearAbove(r)
        /\ \A o \in Entries : (OpaqueAt(o) /\ o[1] = r[1])
                                 => ~AtOrUnder(CleanAt(r), MarkerDir(o))
      ) => EmittedFrom(r)

(***************************************************************************)
(* Vocabulary of the archive claims: the frames of the output.  Frame k of *)
(* a run is the header written for the k-th entry Next returned.           *)
(***************************************************************************)
Out == tw.w.out
NameSize(f) == Len(NameBytes(f.hdr.Name)) + 1
\* the header, the name and its NUL are in the output
FrameWritten(f) == Len(Out) >= f.off + FixedLen + NameSize(f)
\* the name as written: the bytes between the fixed header and the NUL
OutName(f) == SubSeq(Out, f.off + FixedLen + 1, f.off + FixedLen + NameSize(f) - 1)
\* the i-th 8-digit field of the fixed header as written
OutField(f, i) == SubSeq(Out, f.off + 8 * i - 1, f.off + 8 * i + 6)
NameSizeField == 12
EntryFrames == {k \in DOMAIN tw.frames : k <= Len(emitted)}

\* C7: the name of every header the driver writes for a merged entry begins
\* with "./" and ends with "/" exactly for a directory; the directory etc is
\* written as ./etc/ with namesize 7, the file hello as ./hello with namesize 8.
C7_DotSlashNames ==
  \A k \in EntryFrames :
    LET f == tw.frames[k]
        n == OutName(f)
        e == emitted[k].hdr
    IN FrameWritten(f) =>
         /\ Len(n) >= 2 /\ n[1] = "." /\ n[2] = "/"
         /\ (n[Len(n)] = "/") <=> (e.Typeflag = TypeDir)
         /\ (e.Typeflag = TypeDir /\ e.Name = <<S_etc>>) =>
              /\ n = <<".", "/", "e", "t", "c", "/">>
              /\ OutField(f, NameSizeField) = Hex8(7)
         /\ (e.Typeflag = TypeReg /\ e.Name = <<S_hello>>) =>
              /\ n = <<".", "/", "h", "e", "l", "l", "o">>
              /\ OutField(f, NameSizeField) = Hex8(8)

\* the filesize declared by the header of the open entry
CurSize == tw.frames[Len(tw.frames)].hdr.Size
CallOf(op) == wres'.calls = wres.calls + 1 /\ wres'.op = op

\* C8: Write on an open entry fails with WriteTooLong, the excess bytes kept
\* from the sink, when it would take the entry above its declared filesize;
\* writes that stay within filesize succeed and add up.
C8_WriteTooLong ==
  [][(CallOf("Write") /\ ~tw.closed /\ tw.headerWritten) =>
       LET b == wres'.arg
           room == IF CurSize > tw.nb THEN CurSize - tw.nb ELSE 0
       IN IF Len(b) > room
          THEN wres'.err # Nil /\ Len(tw'.w.out) <= Len(Out) + room
          ELSE tw.w.left # 0 => (wres'.err = Nil /\ tw'.nb = tw.nb + Len(b))]_vars

\* C9: WriteHeader on a writer whose open entry got fewer body bytes than its
\* filesize fails with BodyUnderrun, writing neither padding nor the header.
C9_BodyUnderrun ==
  [][(/\ CallOf("WriteHeader") /\ ~tw.closed /\ tw.err = Nil
      /\ tw.headerWritten /\ tw.nb < CurSize)
       => (wres'.err # Nil /\ tw'.w.out = Out)]_vars

\* C10: with a sink that takes every byte, each entry frame of the driver is
\* followed by exactly filesize body bytes, whatever the typeflag and the tar
\* size, and every header, the trailer included, starts on a multiple of 4.
C10_BodyMatchesFilesize ==
  tw.w.left < 0 =>
    \A k \in DOMAIN tw.frames :
      /\ tw.frames[k].off % 4 = 0
      /\ (k \in EntryFrames /\ (k < Len(tw.frames) \/ pc \in {"defer", "exit"}))
           => tw.frames[k].nb = tw.frames[k].hdr.Size

(***************************************************************************)
(* Vocabulary of the trailer and close claims.                             *)
(***************************************************************************)
InodeField == 1
NlinkField == 5
FilesizeField == 7
TrailerBytes == <<"T", "R", "A", "I", "L", "E", "R", "!", "!", "!">>
AllNul(s) == \A i \in DOMAIN s : s[i] = NUL
OutMagic(f) == SubSeq(Out, f.off + 1, f.off + 6)
\* where the name's NUL of frame f sits
NulAt(f) == f.off + FixedLen + NameSize(f)
TrailerFrames == {k \in DOMAIN tw.frames : tw.frames[k].hdr.Name = TrailerName}
BodiesComplete(n) ==
  \A k \in 1..n :
    tw.frames[k].hdr.Hi.Size = 0 /\ tw.frames[k].nb = tw.frames[k].hdr.Size

\* C11: once Close has succeeded the output ends with the one TRAILER!!! record,
\* filesize 0 and nlink 1; between the open body and the trailer Close wrote
\* only the body's zero padding (the trailer is 4-aligned when the bodies were
\* complete), and nothing follows the trailer's header padding.
C11_TrailerOnce ==
  tw.closed =>
    LET n == Len(tw.frames)
        t == tw.frames[n]
    IN /\ TrailerFrames = {n}
       /\ OutMagic(t) = Magic
       /\ OutName(t) = TrailerBytes
       /\ OutField(t, FilesizeField) = Hex8(0)
       /\ OutField(t, NlinkField) = Hex8(1)
       /\ Len(Out) - NulAt(t) \in 0..3
       /\ (Len(Out) - t.off) % 4 = 0
       /\ AllNul(SubSeq(Out, NulAt(t), Len(Out)))
       /\ n > 1 =>
            LET p == tw.frames[n - 1]
                bodyEnd == NulAt(p) + ((4 - ((NulAt(p) - p.off) % 4)) % 4) + p.nb
            IN /\ t.off - bodyEnd \in 0..3
               /\ AllNul(SubSeq(Out, bodyEnd + 1, t.off))
               /\ BodiesComplete(n - 1) => t.off % 4 = 0

\* C11's case: Close succeeded on a writer whose open entry had a complete body
\* that needed padding
C11_Witness ==
  /\ tw.closed /\ wres.op = "Close" /\ wres.err = Nil
  /\ Len(tw.frames) = 2
  /\ tw.frames[1].nb = tw.frames[1].hdr.Size
  /\ tw.frames[1].nb % 4 # 0

\* C12: the k-th header of the archive carries inode k: 1..N for the N merged
\* entries in emission order, and N+1 for the trailer written by Close.
C12_InodeSequence ==
  \A k \in DOMAIN tw.frames :
    FrameWritten(tw.frames[k]) => OutField(tw.frames[k], InodeField) = Hex8(k)

\* a call of the client on a writer that Close has closed
CallOnClosed == tw.closed /\ wres'.calls = wres.calls + 1

\* C13: on a closed writer WriteHeader and Write return an error, Close returns
\* nil, and none of them changes the writer or writes a byte to the sink.
C13_ClosedStaysClosed ==
  [][CallOnClosed =>
       /\ tw' = tw
       /\ wres'.op \in {"WriteHeader", "Write"} => wres'.err # Nil
       /\ wres'.op = "Close" => wres'.err = Nil]_vars

\* C13's case: a WriteHeader was refused by a writer that Close had closed
C13_Witness ==
  /\ tw.closed
  /\ wres.op = "WriteHeader" /\ wres.err = ErrClosed
  /\ TrailerFrames = {Len(tw.frames)}

\* the raw name of entry q holds a ".." segment
HasParentSeg(q) == \E i \in DOMAIN EntryAt(q).Name : EntryAt(q).Name[i] = DotDotSeg
\* the reader has gone past entry q
Consumed(q) == lrs[q[1]].pos >= q[2]

FieldOrder ==
  <<"Inode", "Mode", "Uid", "Gid", "Links", "ModTime", "Size", "DevMajor",
    "DevMinor", "RdevMajor", "RdevMinor">>
CheckField == 13
\* the n hex digits of v modulo 16^n, most significant first
RECURSIVE HexOf(_, _)
HexOf(v, n) ==
  IF n = 0 THEN <<>> ELSE HexOf(v \div 16, n - 1) \o <<HexDigits[(v % 16) + 1]>>

\* C15: after a successful WriteHeader the output holds, from the frame's
\* offset: the magic and 13 fields of 8 hex digits (110 bytes), each field the
\* value modulo 2^32, namesize = len(name) + 1, checksum 0; then the name, one
\* NUL, and p zero bytes, 0 <= p <= 3, with 110 + namesize + p a multiple of 4.
C15_HeaderEncoding ==
  (wres.op = "WriteHeader" /\ wres.err = Nil) =>
    LET f == tw.frames[Len(tw.frames)]
        h == wres.arg
        name == NameBytes(h.Name)
        ns == Len(name) + 1
        p == Len(Out) - (f.off + FixedLen + ns)
    IN /\ OutMagic(f) = Magic
       /\ \A i \in DOMAIN FieldOrder : OutField(f, i) = HexOf(h[FieldOrder[i]], 8)
       /\ OutField(f, NameSizeField) = HexOf(ns, 8)
       /\ OutField(f, CheckField) = HexOf(0, 8)
       /\ SubSeq(Out, f.off + FixedLen + 1, f.off + FixedLen + Len(name)) = name
       /\ Out[f.off + FixedLen + ns] = NUL
       /\ p \in 0..3
       /\ (FixedLen + ns + p) % 4 = 0
       /\ AllNul(SubSeq(Out, f.off + FixedLen + ns, Len(Out)))

\* C15's case: a header with the empty name, negative values and values of
\* 2^31 and more was written
C15_Witness ==
  /\ wres.op = "WriteHeader" /\ wres.err = Nil
  /\ wres.arg.Name = <<EmptySeg>>
  /\ wres.arg.Hi.Inode > 0 /\ wres.arg.Hi.Mode < 0 /\ wres.arg.Uid < 0
  /\ OutField(tw.frames[Len(tw.frames)], InodeField) = <<"0", "0", "0", "0", "0", "0", "0", "5">>

(***************************************************************************)
(* Vocabulary of the translation claims.                                   *)
(***************************************************************************)
ModeField == 2
RdevMajorField == 10
RdevMinorField == 11
\* the translation table of the specification
TableBits ==
  [reg |-> 32768, dir |-> 16384, symlink |-> 40960, link |-> 32768,
   char |-> 8192, block |-> 24576, fifo |-> 4096]
TableSize(th) ==
  IF th.Typeflag = "reg" THEN th.Size
  ELSE IF th.Typeflag = "symlink" THEN Len(th.Linkname)
  ELSE 0
\* the low 12 bits of a non-negative mode
Perm(mode) == mode - 4096 * (mode \div 4096)

\* C16: the header written for a merged entry has mode = (tar mode & 07777) OR
\* the type bits of the table, and size = the tar size for a regular file, the
\* length of the linkname for a symlink, and 0 for every other type.
C16_ModeAndSizeTable ==
  \A k \in EntryFrames :
    LET f == tw.frames[k]
        th == emitted[k].hdr
        mode == Perm(th.Mode) + TableBits[th.Typeflag]
    IN /\ f.hdr.Mode = mode
       /\ f.hdr.Size = TableSize(th)
       /\ FrameWritten(f) =>
            /\ OutField(f, ModeField) = HexOf(mode, 8)
            /\ OutField(f, FilesizeField) = HexOf(TableSize(th), 8)

\* C16's case: a directory whose tar header has a size and a mode above 07777
\* was written with filesize 0 and mode 040755
C16_Witness ==
  \E k \in EntryFrames :
    /\ emitted[k].hdr.Typeflag = TypeDir
    /\ emitted[k].hdr.Size > 0
    /\ emitted[k].hdr.Mode >= 4096
    /\ FrameWritten(tw.frames[k])
    /\ OutField(tw.frames[k], FilesizeField) = HexOf(0, 8)
    /\ OutField(tw.frames[k], ModeField) = <<"0", "0", "0", "0", "4", "1", "E", "D">>

\* C17: the rdevmajor and rdevminor fields written for a merged entry are the
\* tar entry's device major and minor for a character or block device, and 0
\* for every other type.
C17_RdevFromTar ==
  \A k \in EntryFrames :
    LET f == tw.frames[k]
        th == emitted[k].hdr
        isDev == th.Typeflag \in {TypeChar, TypeBlock}
    IN FrameWritten(f) =>
         /\ OutField(f, RdevMajorField) = HexOf(IF isDev THEN th.Devmajor ELSE 0, 8)
         /\ OutField(f, RdevMinorField) = HexOf(IF isDev THEN th.Devminor ELSE 0, 8)

(***************************************************************************)
(* Vocabulary of the ordering claim.                                       *)
(***************************************************************************)
\* every layer has been taken and read to its end
Exhausted == cur = 0 /\ layers = <<>>

C18_State ==
  /\ \A i \in DOMAIN emitted : \A j \in DOMAIN emitted :
       i < j => ReadBefore(Origin(emitted[i]), Origin(emitted[j]))
  /\ \A q \in Positions : \A r \in Positions :
       (Consumed(q) /\ r[1] > q[1]) => Consumed(r)
  /\ (Exhausted /\ Len(manifest) > 0) => ret.kind \in {"running", "eof"}

\* C18: the returned headers follow the read order (last manifest layer first,
\* each layer in tar order); a layer is not touched before every higher layer
\* has been read to its end; once the last layer is exhausted the running call
\* and every later call return io.EOF and nothing else happens.
C18_LayerOrder ==
  /\ []C18_State
  /\ [][Exhausted =>
          /\ cur' = 0 /\ layers' = <<>>
          /\ emitted' = emitted /\ lrs' = lrs /\ seen' = seen /\ opaque' = opaque
          /\ ret'.kind \in {"running", "eof"}]_vars

\* C18's case: at EOF, headers of both layers were returned, the top layer's
\* first, and some entry was passed over
C18_Witness ==
  /\ AtEOF /\ Exhausted
  /\ Len(emitted) = 2
  /\ emitted[1].layer = 2 /\ emitted[2].layer = 1
  /\ \E q \in Entries : ~EmittedFrom(q)

(***************************************************************************)
(* Vocabulary of the determinism claim: the conversion as a function of    *)
(* the layout.                                                             *)
(***************************************************************************)
RECURSIVE Concat(_, _)
\* the entries of layers l, l-1, ..., 1 of m, one after the other
Concat(m, l) == IF l = 0 THEN <<>> ELSE m[l] \o Concat(m, l - 1)

\* the headers Next returns for the entries es, and the error it ends with
RECURSIVE MergeOf(_, _, _, _)
MergeOf(es, sn, op, out) ==
  IF es = <<>> THEN [hdrs |-> out, err |-> ErrEOF]
  ELSE IF Head(es).Typeflag = TarCorrupt THEN [hdrs |-> out, err |-> ErrTar]
  ELSE LET name == cleanPath(Head(es).Name)
           rest == Tail(es)
       IN IF PathBase(name) = OpqBase
          THEN MergeOf(rest, sn, op \cup {PathDir(name)}, out)
          ELSE IF PathBase(name).wh > 0
          THEN MergeOf(rest, sn \cup {PathJoin(PathDir(name), CutWhPrefix(PathBase(name)))},
                       op, out)
          ELSE IF HiddenByOpaque(op, name) \/ name \in sn
          THEN MergeOf(rest, sn, op, out)
          ELSE MergeOf(rest, sn \cup {name}, op,
                       Append(out, [Head(es) EXCEPT !.Name = name]))

\* the archive run writes for the returned headers hs, on a sink that takes
\* every byte, and the error run returns
RECURSIVE ArchiveOf(_, _, _, _, _)
ArchiveOf(hs, k, t, ino, endErr) ==
  IF k > Len(hs)
  THEN [n |-> Len(hs), out |-> Close(t).tw.w.out,
        err |-> IF endErr = ErrEOF THEN Nil ELSE endErr]
  ELSE LET h == WriteHeader(t, DriverHeader(hs[k], ino))
           b == IF h.err # Nil THEN h ELSE CopyBody(h.tw, hs[k])
       IN IF b.err # Nil
          THEN [n |-> k, out |-> Close(b.tw).tw.w.out, err |-> b.err]
          ELSE ArchiveOf(hs, k + 1, b.tw, ino + 1, endErr)

ConversionOf(m) ==
  LET mg == MergeOf(Concat(m, Len(m)), {}, {}, <<>>)
      ar == ArchiveOf(mg.hdrs, 1, NewWriter(Sink(-1)), 1, mg.err)
  IN [hdrs |-> SubSeq(mg.hdrs, 1, ar.n), out |-> ar.out, err |-> ar.err]

EmittedHeaders == [k \in DOMAIN emitted |-> emitted[k].hdr]

\* C19: the headers returned and the bytes written are a function of the
\* layout: whatever the order in which the opaque map is visited, a finished
\* run has returned the headers, written the bytes and ended with the error
\* that the layout alone determines.
C19_Deterministic ==
  (pc = "exit" /\ tw.w.left < 0) =>
    LET c == ConversionOf(manifest)
    IN /\ EmittedHeaders = c.hdrs
       /\ Out = c.out
       /\ runErr = c.err

\* C19's case: a finished run in which the opaque map held two directories
\* when an entry was tested against it, one of them hiding the entry
C19_Witness ==
  /\ pc = "exit" /\ tw.w.left < 0
  /\ Cardinality(opaque) = 2
  /\ \E q \in Entries :
       /\ FileAt(q) /\ ~EmittedFrom(q)
       /\ \E d \in opaque : d # CleanAt(q) /\ ~HasDirPrefix(CleanAt(q), d)
       /\ \E d \in opaque : HasDirPrefix(CleanAt(q), d)
       /\ \A r \in Entries : OpaqueAt(r) => ReadBefore(r, q)

\* no layer reader is open
AllLayersClosed == \A l \in DOMAIN lrs : ~lrs[l].open

\* C20: every layer reader that was opened is closed when the conversion ends:
\* when Next has returned io.EOF, when Next has returned another error, and when
\* run has returned.
C20_LayersClosed ==
  /\ AtEOF => AllLayersClosed
  /\ ret.kind = "err" => AllLayersClosed
  /\ pc = "exit" => AllLayersClosed

\* run has stopped on an error and is about to leave
HaltedOnError == pc = "defer" /\ runErr # Nil

\* C21: after run has stopped on an error of Next, WriteHeader or the body copy,
\* no byte is added to the output: no body padding and no TRAILER!!! record
\* follows the point of failure.
C21_NoWriteAfterError ==
  [][HaltedOnError => tw'.w.out = tw.w.out]_vars

\* a call of the client on a writer that holds the error of a failed sink write
CallAfterFailure == tw.err # Nil /\ wres'.calls = wres.calls + 1

\* C22: once a write to the sink has failed inside the writer, every later
\* WriteHeader, Write and Close returns an error and writes no byte to the
\* sink.
C22_StickyError ==
  [][CallAfterFailure => (wres'.err # Nil /\ tw'.w.out = tw.w.out)]_vars

(***************************************************************************)
(* Vocabulary of the marker claim.                                         *)
(***************************************************************************)
\* the bytes of the last element of a cleaned name
BaseBytes(name) == SegBytes(name[Len(name)])
StartsWithWh(b) == Len(b) >= 4 /\ SubSeq(b, 1, 4) = <<".", "w", "h", ".">>
\* the entry the reader is at
Here == <<cur, lrs[cur].pos + 1>>
\* the step takes the reader past a marker entry
MarkerStep ==
  /\ Running /\ AtHeader /\ lrs' # lrs
  /\ StartsWithWh(BaseBytes(CleanAt(Here)))

C23_State ==
  \A e \in Emitted :
    /\ ~StartsWithWh(BaseBytes(e.hdr.Name))
    /\ FileAt(Origin(e))

\* C23: no header returned by Next has a basename that starts with .wh.; a
\* whiteout adds its target to seen and leaves opaque alone, an opaque marker
\* adds its directory to opaque and leaves seen alone, and neither returns
\* anything.
C23_MarkersConsumed ==
  /\ []C23_State
  /\ [][MarkerStep =>
          /\ emitted' = emitted /\ ret' = ret
          /\ IF OpaqueAt(Here)
             THEN /\ opaque' = opaque \cup {MarkerDir(Here)}
                  /\ seen' = seen
             ELSE /\ seen' = seen \cup {TargetAt(Here)}
                  /\ opaque' = opaque
          /\ Cardinality(seen') + Cardinality(opaque')
               <= Cardinality(seen) + Cardinality(opaque) + 1]_vars

\* C23's case: at EOF a whiteout and an opaque marker have been read, their
\* keys are in seen and in opaque, and an entry was returned
C23_Witness ==
  /\ AtEOF
  /\ emitted # <<>>
  /\ \E q \in Entries : WhiteoutAt(q) /\ TargetAt(q) \in seen
  /\ \E q \in Entries : OpaqueAt(q) /\ MarkerDir(q) \in opaque

====
